---- MODULE Spec2Model ----
(***************************************************************************)
(* Creality Control: the persistent WebSocket channel                      *)
(* (CrealityWebSocketClient) and the data coordinator                      *)
(* (CrealityDataCoordinator) of custom_components/creality_control.        *)
(*                                                                         *)
(* One asyncio event loop runs everything, so the code between two awaits  *)
(* is one atomic step.  The drive-loop task (_run) is modelled by its      *)
(* position `task`; the callers (entities, the update cycle, unload) are   *)
(* the other actions.                                                      *)
(***************************************************************************)
EXTENDS Integers, FiniteSets, Sequences, TLC

VARIABLES
    ws_client,            \* coordinator.ws_client is set
    port,                 \* config['port'] (immutable)
    password,             \* config['password'] (immutable)
    state,                \* CrealityWebSocketClient.state
    ws,                   \* self.ws: "none", "open" or "closed"
    last_update_success,  \* coordinator.last_update_success
    transitions,          \* the changes of state _set_state made in the last step
    orphans,              \* sockets still open that self.ws no longer references
    last_message_time,    \* self.last_message_time
    now,                  \* time.time()
    reconnect_attempts,   \* self.reconnect_attempts
    delay,                \* "delay" of the backoff sleep in progress, in seconds
                          \* (0: the task is in no backoff sleep)
    total_delay,          \* "total_delay" of that sleep, in milliseconds
    shutdown,             \* self._shutdown
    task,                 \* position of the task in self._task
    strays,               \* live drive-loop tasks self._task no longer references
    exhausted,            \* "Max reconnection attempts reached" was logged by this task
    stop_pc,              \* position of a running stop() call
    poll_pc,              \* position of a running _async_update_data call
    data,                 \* coordinator.data
    latest,               \* per key, the value of the last channel frame that held
                          \* it, since a poll last began or replaced the snapshot
    lastCall              \* the call that has just returned to its caller (a
                          \* call of the consumer API, or the notification of
                          \* the listeners by the drive loop)

vars == << ws_client, port, password, state, transitions,
          last_update_success, ws, orphans, last_message_time, now,
           reconnect_attempts, delay, total_delay, shutdown, task, strays,
           exhausted, stop_pc, poll_pc, data, latest, lastCall >>

----------------------------------------------------------------------------
(* Bounds of the model.                                                    *)

StartTime == 200          \* the clock value at construction
TimeStep == 90            \* seconds the clock advances in one Tick
MaxTicks == 2             \* number of Ticks
MaxOrphans == 1           \* cap on the sockets left open without a reference
MaxStrays == 1            \* cap on the tasks left alive without a reference

(* Program constants.                                                      *)

max_reconnect_attempts == 10
base_reconnect_delay == 1
max_reconnect_delay == 60
block_size == 8
stale_threshold == 90

\* config['port']: the default port of the config flow.  Only the model
\* inference reads the port; SpecInference runs it on every port of
\* DetectionPorts.
Ports == {9999}

\* config['password']: the default of the config flow, the empty string.
\* Only the token reads the password; SpecToken runs it on every password
\* of TokenPasswords.
Passwords == {[none |-> FALSE, chars |-> << >>]}

DISCONNECTED == "disconnected"
CONNECTING == "connecting"
CONNECTED == "connected"
STALE == "stale"
RECONNECTING == "reconnecting"

ConnectionState == {DISCONNECTED, CONNECTING, CONNECTED, STALE, RECONNECTING}

----------------------------------------------------------------------------
(* Frames and the snapshot.                                                *)

EmptyMap == [k \in {} |-> 0]

FrameNozzle == [k \in {"nozzleTemp"} |-> 200]
FrameBed == [k \in {"bedTemp0"} |-> 60]
FrameModel == [k \in {"nozzleTemp", "model"} |->
                 IF k = "nozzleTemp" THEN 210 ELSE "K1C"]

\* The decoded JSON objects the device sends (EmptyMap is the frame "{}").
Frames == {FrameNozzle, FrameBed, FrameModel, EmptyMap}

\* the frames without a model field (SpecInference runs them all)
DataFrames == {FrameNozzle, FrameBed, EmptyMap}

NoneData == [none |-> TRUE, fields |-> EmptyMap]
Dict(f) == [none |-> FALSE, fields |-> f]

\* Python truth of coordinator.data: None and {} are false.
Truthy(d) == ~d.none /\ DOMAIN d.fields # {}

Keys(d) == IF d.none THEN {} ELSE DOMAIN d.fields

\* dict.update
Update(d, f) == [k \in DOMAIN d \cup DOMAIN f |-> IF k \in DOMAIN f THEN f[k] ELSE d[k]]

WithKey(f, key, v) == [k \in DOMAIN f \cup {key} |-> IF k = key THEN v ELSE f[k]]

\* the inference taking every port for the port of a K1
DetectModelAnyPort(f, p) ==
    IF "model" \notin DOMAIN f /\ "printerModel" \notin DOMAIN f
    THEN WithKey(f, "detected_model", "K1 Series (FDM)")
    ELSE f

\* "Try to detect printer model if not present"
DetectModel(f, p) ==
    IF "model" \notin DOMAIN f /\ "printerModel" \notin DOMAIN f
    THEN IF p = 9999 THEN WithKey(f, "detected_model", "K1 Series (FDM)")
         ELSE IF p = 18188 THEN WithKey(f, "detected_model", "Halot Series (Resin)")
         ELSE f
    ELSE f

----------------------------------------------------------------------------
(* Token generation: _generate_token of the client and of the coordinator  *)
(* and generate_token of the config flow.  A password is None or a string  *)
(* of code points; a token is the string of base64 digits (0..63, and 64   *)
(* for "=").  DES itself is library code: EncryptBlock stands for the      *)
(* permutation of 8-byte blocks that DES applies under the key.            *)

NonePassword == [none |-> TRUE, chars |-> << >>]
Str(cs) == [none |-> FALSE, chars |-> cs]

\* unhexlify("6138356539643638")
Key == << 97, 56, 53, 101, 57, 100, 54, 56 >>

\* password.encode(): UTF-8 of code points below 2048
RECURSIVE Utf8(_)
Utf8(cs) ==
    IF cs = << >> THEN << >>
    ELSE (IF Head(cs) < 128
          THEN << Head(cs) >>
          ELSE << 192 + (Head(cs) \div 64), 128 + (Head(cs) % 64) >>)
         \o Utf8(Tail(cs))

\* pad(data, DES.block_size): PKCS7
Pad(bs) ==
    LET n == block_size - (Len(bs) % block_size)
    IN  bs \o [i \in 1..n |-> n]

\* one block under the key
EncryptBlock(k, b) == [i \in 1..block_size |-> (b[block_size + 1 - i] + k[i]) % 256]

\* cipher.encrypt in MODE_ECB: block by block
RECURSIVE Encrypt(_, _)
Encrypt(k, bs) ==
    IF bs = << >> THEN << >>
    ELSE EncryptBlock(k, SubSeq(bs, 1, block_size))
         \o Encrypt(k, SubSeq(bs, block_size + 1, Len(bs)))

\* b64encode(...).decode('utf-8')
RECURSIVE B64(_)
B64(bs) ==
    IF bs = << >> THEN << >>
    ELSE IF Len(bs) = 1
    THEN << bs[1] \div 4, (bs[1] % 4) * 16, 64, 64 >>
    ELSE IF Len(bs) = 2
    THEN << bs[1] \div 4, (bs[1] % 4) * 16 + (bs[2] \div 16),
            (bs[2] % 16) * 4, 64 >>
    ELSE << bs[1] \div 4, (bs[1] % 4) * 16 + (bs[2] \div 16),
            (bs[2] % 16) * 4 + (bs[3] \div 64), bs[3] % 64 >>
         \o B64(SubSeq(bs, 4, Len(bs)))

\* the value standing for an exception of the routine
TokenError == << -1 >>

\* the routine from "key = ..." on; None has no encode()
TokenOf(pw) ==
    IF pw.none THEN TokenError
    ELSE B64(Encrypt(Key, Pad(Utf8(pw.chars))))

\* the routine without "if not password: password = ''"
TokenUnguarded(pw) == TokenOf(pw)

\* CrealityWebSocketClient._generate_token
ClientGenerateToken(pw) ==
    TokenOf(IF pw.none \/ pw.chars = << >> THEN Str(<< >>) ELSE pw)

\* CrealityDataCoordinator._generate_token
CoordinatorGenerateToken(pw) ==
    TokenOf(IF pw.none \/ pw.chars = << >> THEN Str(<< >>) ELSE pw)

\* CrealityControlConfigFlow.generate_token
generate_token(pw) ==
    TokenOf(IF pw.none \/ pw.chars = << >> THEN Str(<< >>) ELSE pw)

\* the passwords tried: None, "", "a", seven and eight characters (the
\* padding fills a block, or adds one) and a character of two bytes
TokenPasswords ==
    {NonePassword, Str(<< >>), Str(<< 97 >>),
     Str(<< 97, 98, 99, 100, 101, 102, 103 >>),
     Str(<< 97, 98, 99, 100, 101, 102, 103, 104 >>),
     Str(<< 233 >>)}

\* the tokens of these passwords, computed once
ClientTokens == [pw \in TokenPasswords |-> ClientGenerateToken(pw)]
CoordinatorTokens == [pw \in TokenPasswords |-> CoordinatorGenerateToken(pw)]
FlowTokens == [pw \in TokenPasswords |-> generate_token(pw)]

----------------------------------------------------------------------------
(* A call of the consumer API that completes leaves its result in          *)
(* lastCall; the caller takes it (Return) before any other task runs, as   *)
(* the event loop resumes the caller of a call that returns at once.       *)

\* no frame
NoWrite ==
    [kind |-> "none", method |-> "", body |-> "", num |-> -1, val |-> 0,
     token |-> << >>]

\* {"cmd": c, "token": tok}
TokenFrame(c, tok) ==
    [kind |-> "cmd", method |-> "", body |-> c, num |-> -1, val |-> 0,
     token |-> tok]

\* send_command: {"cmd": command, "token": token}
CmdFrame(c) == TokenFrame(c, ClientTokens[password])

\* {"method": "set", "params": {b: v}}
JsonFrame(b, v) ==
    [kind |-> "json", method |-> "set", body |-> b, num |-> -1, val |-> v,
     token |-> << >>]

\* {"method": "set", "params": {b: {"num": n, "val": v}}}
SlotFrame(b, n, v) ==
    [kind |-> "json", method |-> "set", body |-> b, num |-> n, val |-> v,
     token |-> << >>]

\* "return None" of _detect_creality_port
NoPort == 0

\* what a step hands to its caller and to the outside: the value returned,
\* the frame given to the socket and the number of write attempts made; for
\* a port detection the probes it made and the port it returns
Call(op, ret, wrote) ==
    [op |-> op, ret |-> ret, wrote |-> wrote,
     tries |-> IF wrote.kind = "none" THEN 0 ELSE 1,
     probes |-> << >>, found |-> NoPort]

NoCall == Call("none", "None", NoWrite)

Bool(b) == IF b THEN "True" ELSE "False"

Idle == lastCall = NoCall

\* a _set_state that logs whatever it is given
SetStateAlways(old, new) == << << old, new >> >>

\* _set_state: the change it makes and logs, none when the state is the same
SetState(old, new) == IF old = new THEN << >> ELSE << << old, new >> >>

Return ==
    /\ ~Idle
    /\ lastCall' = NoCall
    /\ UNCHANGED << last_update_success, ws_client, port, password, delay, total_delay, state, ws, orphans, last_message_time, now,
                    reconnect_attempts, shutdown, task, strays, exhausted,
                    stop_pc, poll_pc, data, latest >>
    /\ transitions' = SetState(state, state')

Commands == {"PRINT_STOP"}
Payloads == {"lightSw"}
Zones == {"nozzle", "bed", "chamber"}
Temps == {60}

Init ==
    /\ ws_client = FALSE
    /\ port \in Ports
    /\ password \in Passwords
    /\ state = DISCONNECTED
    /\ transitions = << >>
    /\ last_update_success = TRUE
    /\ ws = "none"
    /\ orphans = 0
    /\ last_message_time = 0
    /\ now = StartTime
    /\ reconnect_attempts = 0
    /\ delay = 0
    /\ total_delay = 0
    /\ shutdown = FALSE
    /\ task = "none"
    /\ strays = 0
    /\ exhausted = FALSE
    /\ stop_pc = "idle"
    /\ poll_pc = "idle"
    /\ data = NoneData
    /\ latest = EmptyMap
    /\ lastCall = NoCall

\* time passes
Tick ==
    /\ Idle
    /\ now < StartTime + MaxTicks * TimeStep
    /\ now' = now + TimeStep
    /\ UNCHANGED << last_update_success, ws_client, port, password, delay, total_delay, state, ws, orphans, last_message_time,
                    reconnect_attempts, shutdown, task, strays, exhausted,
                    stop_pc, poll_pc, data, latest, lastCall >>
    /\ transitions' = SetState(state, state')

----------------------------------------------------------------------------
(* CrealityWebSocketClient.start / stop                                    *)

\* start() without its guard
TaskRunningUnchecked == FALSE

\* "if self._task and not self._task.done(): return"
TaskRunning == task \notin {"none", "done"}

start ==
    /\ Idle
    /\ ws_client
    /\ IF TaskRunning
       THEN UNCHANGED << shutdown, task, strays, exhausted >>
       ELSE /\ shutdown' = FALSE
            /\ task' = "top"
            /\ exhausted' = FALSE
            /\ strays' = IF task \in {"none", "done"} THEN strays
                         ELSE IF strays < MaxStrays THEN strays + 1 ELSE strays
    /\ lastCall' = Call("start", "None", NoWrite)
    /\ UNCHANGED << last_update_success, ws_client, port, password, delay, total_delay, state, ws, orphans, last_message_time, now,
                    reconnect_attempts, stop_pc, poll_pc, data, latest >>
    /\ transitions' = SetState(state, state')

\* a stop() that neither cancels nor awaits the task
StopBeginNoCancel ==
    /\ Idle
    /\ ws_client
    /\ stop_pc = "idle"
    /\ shutdown' = TRUE
    /\ IF ws = "open"
       THEN /\ ws' = "closed"
            /\ stop_pc' = "closing"
            /\ UNCHANGED << state, lastCall >>
       ELSE /\ state' = DISCONNECTED
            /\ lastCall' = Call("stop", "None", NoWrite)
            /\ UNCHANGED << ws, stop_pc >>
    /\ UNCHANGED << last_update_success, ws_client, port, password, delay, total_delay, orphans,
                    last_message_time, now, reconnect_attempts, task, strays,
                    exhausted, poll_pc, data, latest >>
    /\ transitions' = SetState(state, state')

\* stop(), up to "await self._task" (a live task) or through _disconnect
StopBegin ==
    /\ Idle
    /\ ws_client
    /\ stop_pc = "idle"
    /\ shutdown' = TRUE
    /\ IF task \notin {"none", "done"}
       THEN /\ stop_pc' = "await"
            /\ UNCHANGED << ws, state, lastCall >>
       ELSE IF ws = "open"
       THEN /\ ws' = "closed"
            /\ stop_pc' = "closing"
            /\ UNCHANGED << state, lastCall >>
       ELSE /\ state' = DISCONNECTED
            /\ lastCall' = Call("stop", "None", NoWrite)
            /\ UNCHANGED << ws, stop_pc >>
    /\ UNCHANGED << last_update_success, ws_client, port, password, delay, total_delay, orphans, last_message_time, now,
                    reconnect_attempts, task, strays, exhausted, poll_pc, data,
                    latest >>
    /\ transitions' = SetState(state, state')

\* the cancelled task ends at its await (CancelledError is no Exception: only
\* _run catches it, or it leaves _run from inside the error handler);
\* stop() goes on into _disconnect
TaskCancelled ==
    /\ Idle
    /\ stop_pc = "await"
    /\ task' = "done"
    /\ IF ws = "open"
       THEN /\ ws' = "closed"
            /\ stop_pc' = "closing"
            /\ UNCHANGED << state, lastCall >>
       ELSE /\ state' = DISCONNECTED
            /\ stop_pc' = "idle"
            /\ lastCall' = Call("stop", "None", NoWrite)
            /\ UNCHANGED ws
    /\ delay' = 0
    /\ total_delay' = 0
    /\ UNCHANGED << last_update_success, ws_client, port, password, orphans, last_message_time, now,
                    reconnect_attempts, shutdown, strays, exhausted, poll_pc,
                    data, latest >>
    /\ transitions' = SetState(state, state')

\* "await self.ws.close()" is over: _set_state(DISCONNECTED), stop() returns
StopReturn ==
    /\ Idle
    /\ stop_pc = "closing"
    /\ state' = DISCONNECTED
    /\ stop_pc' = "idle"
    /\ lastCall' = Call("stop", "None", NoWrite)
    /\ UNCHANGED << last_update_success, ws_client, port, password, delay, total_delay, ws, orphans, last_message_time, now,
                    reconnect_attempts, shutdown, task, strays, exhausted,
                    poll_pc, data, latest >>
    /\ transitions' = SetState(state, state')

----------------------------------------------------------------------------------------------------------------------------------------
(* The drive loop: _run, _connect, _message_loop, _handle_connection_error.*)
(* The task runs from one await to the next in one step; its awaits are    *)
(* ws_connect ("connect"), the receive of the message loop ("receive"),    *)
(* the backoff sleep ("backoff") and the request of the export hook on the *)
(* frame that seeds the snapshot ("export"); "top" is a task that has not  *)
(* run yet.                                                                *)

\* "if self.state != ConnectionState.CONNECTED or not self.ws or
\* self.ws.closed" of send_command, for the state st and the socket sock
Refused(st, sock) == st # CONNECTED \/ sock # "open"

\* "await self.send_command("GET_PRINT_STATUS")" of _message_loop: the
\* request is refused, written, or its write raises; the result is ignored
StatusRequest(st, sock, sent) ==
    IF Refused(st, sock)
    THEN Call("_message_loop", "False", NoWrite)
    ELSE Call("_message_loop", Bool(sent), CmdFrame("GET_PRINT_STATUS"))

\* the step of _run ends in _message_loop when it ends at the receive
EnterMessageLoop ==
    IF task' = "receive"
    THEN \E sent \in BOOLEAN : lastCall' = StatusRequest(state', ws', sent)
    ELSE lastCall' = lastCall

\* a task that goes on although stop() has cancelled it
ResumableAlways == TRUE

\* a cancel() of stop() is delivered at the task's next resumption
Resumable == stop_pc # "await"

\* _run from its loop test to the next await, the state being st: the loop
\* ends on shutdown; _connect returns at once when CONNECTED and
\* _message_loop goes to its receive; otherwise _connect sets CONNECTING and
\* awaits ws_connect
LoopTask(st) ==
    IF shutdown THEN "done"
    ELSE IF st = CONNECTED THEN "receive"
    ELSE "connect"

LoopState(st) ==
    IF shutdown \/ st = CONNECTED THEN st ELSE CONNECTING

\* the test one attempt late
AttemptsExhaustedLate == reconnect_attempts > max_reconnect_attempts

\* "if self.reconnect_attempts >= self.max_reconnect_attempts"
AttemptsExhausted == reconnect_attempts >= max_reconnect_attempts

Min(a, b) == IF a <= b THEN a ELSE b

\* 2 ** n
RECURSIVE Pow2(_)
Pow2(n) == IF n = 0 THEN 1 ELSE 2 * Pow2(n - 1)

\* the exponential delay without its cap
DelayUncapped(n) == base_reconnect_delay * Pow2(n)

\* "delay = min(self.base_reconnect_delay * (2 ** self.reconnect_attempts),
\* self.max_reconnect_delay)", n being the counter after its increment
Delay(n) == Min(base_reconnect_delay * Pow2(n), max_reconnect_delay)

\* a jitter factor beyond the range of the draw
JitterPercentsWide == {10, 60}

\* "random.uniform(0.1, 0.5)": the factor of the jitter in percent, at the
\* two ends of its range
JitterPercents == {10, 50}

\* "total_delay = delay + jitter" in milliseconds, jitter being pct percent
\* of the delay d
TotalDelay(d, pct) == 1000 * d + 10 * pct * d

\* "except Exception" of _run: _handle_connection_error, and after its return
\* the loop of _run again
HandleConnectionError ==
    /\ ws' = IF ws = "open" THEN "closed" ELSE ws
    /\ IF shutdown
       THEN /\ state' = LoopState(DISCONNECTED)
            /\ task' = LoopTask(DISCONNECTED)
            /\ UNCHANGED << reconnect_attempts, exhausted, delay, total_delay >>
       ELSE IF AttemptsExhausted
       THEN /\ exhausted' = TRUE
            /\ state' = LoopState(DISCONNECTED)
            /\ task' = LoopTask(DISCONNECTED)
            /\ UNCHANGED << reconnect_attempts, delay, total_delay >>
       ELSE /\ state' = RECONNECTING
            /\ reconnect_attempts' = reconnect_attempts + 1
            /\ delay' = Delay(reconnect_attempts + 1)
            /\ \E pct \in JitterPercents :
                   total_delay' = TotalDelay(Delay(reconnect_attempts + 1), pct)
            /\ task' = "backoff"
            /\ UNCHANGED exhausted
    /\ transitions' =
          SetState(state, DISCONNECTED)
          \o (IF shutdown THEN << >>
              ELSE IF AttemptsExhausted
              THEN SetState(DISCONNECTED, DISCONNECTED)
                   \o SetState(DISCONNECTED, state')
              ELSE SetState(DISCONNECTED, RECONNECTING))

\* the new task runs for the first time
RunStart ==
    /\ Idle
    /\ task = "top"
    /\ Resumable
    /\ state' = LoopState(state)
    /\ task' = LoopTask(state)
    /\ UNCHANGED << last_update_success, ws_client, port, password, delay, total_delay, ws, orphans, last_message_time, now,
                    reconnect_attempts, shutdown, strays, exhausted, stop_pc,
                    poll_pc, data, latest >>
    /\ transitions' = SetState(state, state')
    /\ EnterMessageLoop

\* a connect that keeps the attempt counter
ConnectOkNoReset ==
    /\ Idle
    /\ task = "connect"
    /\ Resumable
    /\ ws = "open" => orphans < MaxOrphans
    /\ orphans' = IF ws = "open" THEN orphans + 1 ELSE orphans
    /\ ws' = "open"
    /\ state' = CONNECTED
    /\ last_message_time' = now
    /\ task' = "receive"
    /\ UNCHANGED << last_update_success, ws_client, port, password, delay, total_delay, now,
                    reconnect_attempts, shutdown, strays, exhausted, stop_pc,
                    poll_pc, data, latest >>
    /\ transitions' = SetState(state, state')
    /\ EnterMessageLoop

\* ws_connect succeeds: the new socket replaces self.ws, and _message_loop
\* goes to its receive
ConnectOk ==
    /\ Idle
    /\ task = "connect"
    /\ Resumable
    /\ ws = "open" => orphans < MaxOrphans
    /\ orphans' = IF ws = "open" THEN orphans + 1 ELSE orphans
    /\ ws' = "open"
    /\ state' = CONNECTED
    /\ reconnect_attempts' = 0
    /\ last_message_time' = now
    /\ task' = "receive"
    /\ UNCHANGED << last_update_success, ws_client, port, password, delay, total_delay, now, shutdown, strays, exhausted, stop_pc,
                    poll_pc, data, latest >>
    /\ transitions' = SetState(state, state')
    /\ EnterMessageLoop

\* ws_connect raises
ConnectFail ==
    /\ Idle
    /\ task = "connect"
    /\ Resumable
    /\ HandleConnectionError
    /\ UNCHANGED << last_update_success, ws_client, port, password, orphans, last_message_time, now, shutdown,
                    strays, stop_pc, poll_pc, data, latest, lastCall >>

\* asyncio.sleep(total_delay) is over
BackoffDone ==
    /\ Idle
    /\ task = "backoff"
    /\ Resumable
    /\ state' = LoopState(state)
    /\ task' = LoopTask(state)
    /\ delay' = 0
    /\ total_delay' = 0
    /\ UNCHANGED << last_update_success, ws_client, port, password, ws, orphans, last_message_time, now,
                    reconnect_attempts, shutdown, strays, exhausted, stop_pc,
                    poll_pc, data, latest >>
    /\ transitions' = SetState(state, state')
    /\ EnterMessageLoop

Receiving == task = "receive" /\ Resumable /\ ws = "open"

\* the frame replaces the snapshot instead of being merged into it
FuseReplace(d, f) == Dict(f)

\* _handle_message: the snapshot after the frame f
Fuse(d, f) == IF Truthy(d) THEN Dict(Update(d.fields, f)) ELSE Dict(f)

\* "self.coordinator.async_update_listeners()" has returned
Notified == Call("async_update_listeners", "None", NoWrite)

\* a test every frame passes
HasFieldsAlways(f) == TRUE

\* "if data:"
HasFields(f) == f # EmptyMap

\* a TEXT frame that decodes to the object f: _handle_message, through the
\* notification of the listeners when the frame is merged, and up to
\* "await self._send_raw_data_to_endpoint(data)" when it seeds the snapshot
RecvText(f) ==
    /\ Idle
    /\ Receiving
    /\ IF shutdown
       THEN /\ state' = LoopState(state)
            /\ task' = LoopTask(state)
            /\ UNCHANGED << last_message_time, data, latest, lastCall,
                            last_update_success >>
       ELSE /\ last_message_time' = now
            /\ state' = state
            /\ IF HasFields(f)
               THEN /\ data' = Fuse(data, DetectModel(f, port))
                    /\ latest' = Update(latest, f)
                    /\ IF Truthy(data)
                       THEN /\ task' = task
                            /\ last_update_success' = TRUE
                            /\ lastCall' = Notified
                       ELSE /\ task' = "export"
                            /\ UNCHANGED << last_update_success, lastCall >>
               ELSE UNCHANGED << data, latest, task, lastCall,
                                 last_update_success >>
    /\ UNCHANGED << ws_client, port, password, delay, total_delay, ws, orphans, now,
                    reconnect_attempts, shutdown, strays, exhausted, stop_pc,
                    poll_pc >>
    /\ transitions' = SetState(state, state')

\* the export hook returns (it catches every Exception of its request):
\* last_update_success, last_update_time, async_update_listeners(), and the
\* message loop goes to its next receive
ExportDone ==
    /\ Idle
    /\ task = "export"
    /\ Resumable
    /\ task' = "receive"
    /\ last_update_success' = TRUE
    /\ lastCall' = Notified
    /\ UNCHANGED << ws_client, port, password, delay, total_delay, state, ws, orphans,
                    last_message_time, now, reconnect_attempts, shutdown,
                    strays, exhausted, stop_pc, poll_pc, data, latest >>
    /\ transitions' = SetState(state, state')

\* a frame json.loads rejects, taken for a failure of the connection
RecvInvalidJsonFatal ==
    /\ Idle
    /\ Receiving
    /\ HandleConnectionError
    /\ UNCHANGED << last_update_success, ws_client, port, password, orphans, last_message_time, now, shutdown,
                    strays, stop_pc, poll_pc, data, latest, lastCall >>

\* a TEXT frame json.loads rejects: "continue"
RecvInvalidJson ==
    /\ Idle
    /\ Receiving
    /\ state' = IF shutdown THEN LoopState(state) ELSE state
    /\ task' = IF shutdown THEN LoopTask(state) ELSE task
    /\ UNCHANGED << last_update_success, ws_client, port, password, delay, total_delay, ws, orphans, last_message_time, now,
                    reconnect_attempts, shutdown, strays, exhausted, stop_pc,
                    poll_pc, data, latest, lastCall >>
    /\ transitions' = SetState(state, state')

\* the peer closes, or an ERROR or CLOSE frame arrives: the socket is closed,
\* _message_loop returns and _run loops
RecvClose ==
    /\ Idle
    /\ Receiving
    /\ ws' = "closed"
    /\ state' = LoopState(state)
    /\ task' = LoopTask(state)
    /\ UNCHANGED << last_update_success, ws_client, port, password, delay, total_delay, orphans, last_message_time, now,
                    reconnect_attempts, shutdown, strays, exhausted, stop_pc,
                    poll_pc, data, latest >>
    /\ transitions' = SetState(state, state')
    /\ EnterMessageLoop

\* asyncio.TimeoutError of the receive: caught, _message_loop returns and
\* _run loops
RecvTimeout ==
    /\ Idle
    /\ Receiving
    /\ state' = LoopState(state)
    /\ task' = LoopTask(state)
    /\ UNCHANGED << last_update_success, ws_client, port, password, delay, total_delay, ws, orphans, last_message_time, now,
                    reconnect_attempts, shutdown, strays, exhausted, stop_pc,
                    poll_pc, data, latest >>
    /\ transitions' = SetState(state, state')
    /\ EnterMessageLoop

\* any other exception of the receive: re-raised to _run
RecvRaise ==
    /\ Idle
    /\ Receiving
    /\ HandleConnectionError
    /\ UNCHANGED << last_update_success, ws_client, port, password, orphans, last_message_time, now, shutdown,
                    strays, stop_pc, poll_pc, data, latest, lastCall >>

\* "async for msg in self.ws" on a socket that is closed ends at once, and
\* _run loops
RecvEnd ==
    /\ Idle
    /\ task = "receive"
    /\ Resumable
    /\ ws # "open"
    /\ state' = LoopState(state)
    /\ task' = LoopTask(state)
    /\ UNCHANGED << last_update_success, ws_client, port, password, delay, total_delay, ws, orphans, last_message_time, now,
                    reconnect_attempts, shutdown, strays, exhausted, stop_pc,
                    poll_pc, data, latest >>
    /\ transitions' = SetState(state, state')
    /\ EnterMessageLoop

----------------
(* is_healthy, send_command, send_json and the coordinator's wrappers      *)

\* the threshold compared with >= instead of >
IsStaleAtThreshold == now - last_message_time >= stale_threshold

\* "time_since_last_message > self.stale_threshold"
IsStale == now - last_message_time > stale_threshold

\* the value is_healthy returns
Healthy == state = CONNECTED /\ ~IsStale

\* a query that marks any state stale
HealthStateAny == IF IsStale THEN STALE ELSE state

\* a query that takes a stale channel back on a fresh frame
HealthStateRecovering ==
    IF state = CONNECTED /\ IsStale THEN STALE
    ELSE IF state = STALE /\ ~IsStale THEN CONNECTED
    ELSE state

\* the state is_healthy leaves
HealthState == IF state = CONNECTED /\ IsStale THEN STALE ELSE state

\* an entity's availability query (ws_client.is_healthy())
is_healthy ==
    /\ Idle
    /\ ws_client
    /\ state' = HealthState
    /\ lastCall' = Call("is_healthy", Bool(Healthy), NoWrite)
    /\ UNCHANGED << last_update_success, ws_client, port, password, delay, total_delay, ws, orphans, last_message_time, now,
                    reconnect_attempts, shutdown, task, strays, exhausted,
                    stop_pc, poll_pc, data, latest >>
    /\ transitions' = SetState(state, state')

\* the guard of a send without its test of the state
CanSendOpenSocket == ws = "open"

\* the negation of "self.state != CONNECTED or not self.ws or self.ws.closed"
CanSend == state = CONNECTED /\ ws = "open"

\* a write that is tried a second time when it fails
WrittenRetried(op, frame, sent) ==
    IF sent THEN Call(op, "True", frame)
    ELSE [Call(op, "False", frame) EXCEPT !.tries = 2]

\* "try: await self.ws.send_json(...); return True / except Exception:
\* return False": the frame is given to the socket once, and the write
\* succeeds (sent) or raises
Written(op, frame, sent) == Call(op, Bool(sent), frame)

\* one send through the coordinator: False and no write without a channel or
\* when the client refuses, else the outcome of the write
Send(op, frame, sent) ==
    /\ Idle
    /\ lastCall' = IF ws_client /\ CanSend
                   THEN Written(op, frame, sent)
                   ELSE Call(op, "False", NoWrite)
    /\ UNCHANGED << last_update_success, ws_client, port, password, delay, total_delay, state, ws, orphans, last_message_time, now,
                    reconnect_attempts, shutdown, task, strays, exhausted,
                    stop_pc, poll_pc, data, latest >>
    /\ transitions' = SetState(state, state')

send_command(c) == \E sent \in BOOLEAN : Send("send_command", CmdFrame(c), sent)

send_json(b) == \E sent \in BOOLEAN : Send("send_json", JsonFrame(b, 1), sent)

\* both zones with the payload of the nozzle
TempFrameFlat(zone, t) ==
    IF zone = "nozzle" THEN JsonFrame("nozzleTempControl", t)
    ELSE IF zone = "bed" THEN JsonFrame("bedTempControl", t)
    ELSE NoWrite

\* send_temp_command: the payload of a zone
TempFrame(zone, t) ==
    IF zone = "nozzle" THEN JsonFrame("nozzleTempControl", t)
    ELSE IF zone = "bed" THEN SlotFrame("bedTempControl", 0, t)
    ELSE NoWrite

\* send_temp_command: "Invalid temperature type" returns False before any
\* send
send_temp_command(zone, t) ==
    IF zone \in {"nozzle", "bed"}
    THEN \E sent \in BOOLEAN : Send("send_temp_command", TempFrame(zone, t), sent)
    ELSE Send("send_temp_command", NoWrite, FALSE)

----------------------------------------------------------------------------
(* The update cycle: _async_update_data and _poll_data.  The base class    *)
(* DataUpdateCoordinator stores the value _async_update_data returns in    *)
(* coordinator.data and keeps the old value when UpdateFailed is raised.   *)

\* the data test left out
ReturnsDataUntested == ws_client /\ Healthy

\* "not (not self.ws_client or not self.ws_client.is_healthy())" and
\* "if self.data": _async_update_data returns self.data
ReturnsData == ws_client /\ Healthy /\ Truthy(data)

\* _async_update_data up to its return of self.data or to the poll's await
RefreshBegin ==
    /\ Idle
    /\ poll_pc = "idle"
    /\ state' = IF ws_client THEN HealthState ELSE state
    /\ IF ReturnsData
       THEN /\ lastCall' = Call("refresh", "data", NoWrite)
            /\ last_update_success' = TRUE
            /\ UNCHANGED << poll_pc, latest >>
       ELSE /\ poll_pc' = "polling"
            /\ latest' = EmptyMap
            /\ UNCHANGED << lastCall, last_update_success >>
    /\ UNCHANGED << ws_client, port, password, delay, total_delay, ws, orphans,
                    last_message_time, now, reconnect_attempts, shutdown, task,
                    strays, exhausted, stop_pc, data >>
    /\ transitions' = SetState(state, state')

\* what _poll_data returns when the device answers with the object msg:
\* "if msg: ... return msg", and None when the body of the if is skipped
PollReturn(msg) == IF msg # EmptyMap THEN Dict(DetectModel(msg, port)) ELSE NoneData

\* "await ws.send_json({"cmd": "GET_PRINT_STATUS", "token": token})"
PollRequest == TokenFrame("GET_PRINT_STATUS", CoordinatorTokens[password])

\* the device answers the poll; the first refresh goes on to _start_websocket
PollAnswered(msg) ==
    /\ Idle
    /\ poll_pc = "polling"
    /\ poll_pc' = "idle"
    /\ data' = PollReturn(msg)
    /\ lastCall' = Call("refresh", IF PollReturn(msg).none THEN "None" ELSE "data",
                        PollRequest)
    /\ ws_client' = TRUE
    /\ latest' = EmptyMap
    /\ last_update_success' = TRUE
    /\ UNCHANGED << port, password, delay, total_delay, state, ws, orphans,
                    last_message_time, now, reconnect_attempts, shutdown, task,
                    strays, exhausted, stop_pc >>
    /\ transitions' = SetState(state, state')

\* connect error, timeout or a response that is no JSON: UpdateFailed
PollFailed ==
    /\ Idle
    /\ poll_pc = "polling"
    /\ poll_pc' = "idle"
    /\ lastCall' = Call("refresh", "UpdateFailed", NoWrite)
    /\ last_update_success' = FALSE
    /\ UNCHANGED << ws_client, port, password, delay, total_delay, state, ws, orphans, last_message_time, now,
                    reconnect_attempts, shutdown, task, strays, exhausted,
                    stop_pc, data, latest >>
    /\ transitions' = SetState(state, state')

----------------------------------------------------------------------------

Channel ==
    \/ Return
    \/ Tick
    \/ start
    \/ StopBegin
    \/ TaskCancelled
    \/ StopReturn
    \/ RunStart
    \/ ConnectOk
    \/ ConnectFail
    \/ BackoffDone
    \/ \E f \in DataFrames : RecvText(f)
    \/ ExportDone
    \/ RecvInvalidJson
    \/ RecvClose
    \/ RecvTimeout
    \/ RecvRaise
    \/ RecvEnd
    \/ is_healthy
    \/ \E c \in Commands : send_command(c)
    \/ \E b \in Payloads : send_json(b)
    \/ \E z \in Zones, t \in Temps : send_temp_command(z, t)

Refresh ==
    \/ RefreshBegin
    \/ \E msg \in DataFrames : PollAnswered(msg)
    \/ PollFailed

Next == Channel \/ Refresh

Spec == Init /\ [][Next]_vars

\* the channel alone: the update cycle runs only to set the channel up
NextChannel == Channel \/ (~ws_client /\ Refresh)

SpecChannel == Init /\ [][NextChannel]_vars

\* "ports_to_try": every port the config flow can store in the entry
DetectionPorts == {9999, 18188, 8080, 80}

\* the state after construction, on any of these ports
InitAnyPort ==
    /\ port \in DetectionPorts
    /\ password \in Passwords
    /\ ws_client = FALSE
    /\ state = DISCONNECTED
    /\ transitions = << >>
    /\ last_update_success = TRUE
    /\ ws = "none"
    /\ orphans = 0
    /\ last_message_time = 0
    /\ now = StartTime
    /\ reconnect_attempts = 0
    /\ delay = 0
    /\ total_delay = 0
    /\ shutdown = FALSE
    /\ task = "none"
    /\ strays = 0
    /\ exhausted = FALSE
    /\ stop_pc = "idle"
    /\ poll_pc = "idle"
    /\ data = NoneData
    /\ latest = EmptyMap
    /\ lastCall = NoCall

\* the steps that write the snapshot, with a device that answers every
\* connect and every poll
NextInference ==
    \/ Return
    \/ Tick
    \/ start
    \/ RunStart
    \/ ConnectOk
    \/ \E f \in Frames : RecvText(f)
    \/ ExportDone
    \/ is_healthy
    \/ RefreshBegin
    \/ \E msg \in Frames : PollAnswered(msg)

SpecInference == InitAnyPort /\ [][NextInference]_vars

----------------------------------------------------------------------------
(* The session after its export: the first refresh was answered with {},   *)
(* the channel connected, a frame seeded the snapshot and the export hook  *)
(* has returned.                                                           *)

Exported ==
    /\ port \in Ports
    /\ password \in Passwords
    /\ ws_client = TRUE
    /\ state = CONNECTED
    /\ transitions = << >>
    /\ last_update_success = TRUE
    /\ ws = "open"
    /\ orphans = 0
    /\ last_message_time = StartTime
    /\ now = StartTime
    /\ reconnect_attempts = 0
    /\ delay = 0
    /\ total_delay = 0
    /\ shutdown = FALSE
    /\ task = "receive"
    /\ strays = 0
    /\ exhausted = FALSE
    /\ stop_pc = "idle"
    /\ poll_pc = "idle"
    /\ \E f \in DataFrames :
          /\ HasFields(f)
          /\ data = Fuse(NoneData, DetectModel(f, port))
          /\ latest = f
    /\ lastCall = NoCall

\* the session goes on without stop() and start(): frames, losses of the
\* connection, reconnects and updates
NextExported ==
    \/ Return
    \/ Tick
    \/ ConnectOk
    \/ ConnectFail
    \/ BackoffDone
    \/ \E f \in DataFrames : RecvText(f)
    \/ ExportDone
    \/ RecvInvalidJson
    \/ RecvClose
    \/ RecvTimeout
    \/ RecvRaise
    \/ RecvEnd
    \/ is_healthy
    \/ Refresh

SpecExported == Exported /\ [][NextExported]_vars

----------------------------------------------------------------------------
(* The channel with a device that stays reachable and no stop(): every     *)
(* ws_connect and every poll succeeds.                                     *)

\* the steps of the task of _run
DriveLoop ==
    \/ RunStart
    \/ ConnectOk
    \/ BackoffDone
    \/ \E f \in DataFrames : RecvText(f)
    \/ ExportDone
    \/ RecvInvalidJson
    \/ RecvClose
    \/ RecvTimeout
    \/ RecvRaise
    \/ RecvEnd

\* _run on a closed socket in state CONNECTED: _connect returns at once,
\* send_command returns False before its await and the loop over the closed
\* socket ends without waiting, so the task goes round without ever
\* suspending and the event loop runs no other callback
Spinning ==
    /\ task = "receive"
    /\ Resumable
    /\ ws # "open"
    /\ state = CONNECTED
    /\ ~shutdown

\* what the event loop runs besides the task
Callbacks ==
    \/ start
    \/ is_healthy
    \/ RefreshBegin
    \/ \E msg \in DataFrames : PollAnswered(msg)

NextLive ==
    \/ Return
    \/ Tick
    \/ DriveLoop
    \/ ~Spinning /\ Callbacks

\* the event loop runs what is ready in turn: the task gets its step however
\* often a callback comes in between, health queries keep coming, time passes
SpecLive ==
    /\ Init
    /\ [][NextLive]_vars
    /\ SF_vars(DriveLoop)
    /\ SF_vars(~Spinning /\ is_healthy)
    /\ SF_vars(Tick)
    /\ WF_vars(Return)

----------------------------------------------------------------------------
(* The entities' availability.                                             *)

\* the available property of the sensor, number and switch entities
Entities == {"sensor.available", "number.available", "switch.available"}

\* availability by the flag of the coordinator alone
FlagOnly == last_update_success

\* "self.coordinator.ws_client.is_healthy() and
\* self.coordinator.last_update_success", and the flag alone without channel
IsAvailable == IF ws_client THEN Healthy /\ last_update_success
               ELSE last_update_success

\* an entity's available property is read: with a channel, is_healthy() runs
available(entity) ==
    /\ Idle
    /\ state' = IF ws_client THEN HealthState ELSE state
    /\ lastCall' = Call(entity, Bool(IsAvailable), NoWrite)
    /\ UNCHANGED << last_update_success, ws_client, port, password, delay,
                    total_delay, ws, orphans, last_message_time, now,
                    reconnect_attempts, shutdown, task, strays, exhausted,
                    stop_pc, poll_pc, data, latest >>
    /\ transitions' = SetState(state, state')

\* the entities read their availability while the channel runs, loses its
\* connection and the update cycle polls
NextEntities ==
    \/ Return
    \/ Tick
    \/ start
    \/ RunStart
    \/ ConnectOk
    \/ ConnectFail
    \/ BackoffDone
    \/ \E f \in DataFrames : RecvText(f)
    \/ ExportDone
    \/ RecvClose
    \/ RecvTimeout
    \/ RecvRaise
    \/ RecvEnd
    \/ Refresh
    \/ \E entity \in Entities : available(entity)

SpecEntities == Init /\ [][NextEntities]_vars

----------------------------------------------------------------------------
(* The config flow's connection test, and the token of every password.     *)

\* what the device does with the test: it accepts the token, rejects it,
\* does not answer within 10 s or cannot be reached
TestAnswers == {"valid", "token_error", "timeout", "unreachable"}

\* config_flow.py uses async_timeout at line 145 and imports it nowhere
\* (lines 1-11): the name is unbound when the line runs
TimeoutImported == FALSE

\* what _test_connection returns: None when ws_connect raises; after the
\* request is sent, "async with async_timeout.timeout(10)" raises NameError,
\* which "except Exception" turns into None; with the name bound it would be
\* None on a timeout, False on TOKEN_ERROR and True on any other answer
TestReturn(answer) ==
    IF answer = "unreachable" THEN "None"
    ELSE IF ~TimeoutImported THEN "None"
    ELSE IF answer = "timeout" THEN "None"
    ELSE Bool(answer = "valid")

\* the frame _test_connection has sent
TestRequest(answer) ==
    IF answer = "unreachable" THEN NoWrite
    ELSE TokenFrame("GET_PRINT_STATUS", FlowTokens[password])

\* _test_connection of the config flow, with the password of the entry to be
\* created
test_connection(answer) ==
    /\ Idle
    /\ ~ws_client
    /\ poll_pc = "idle"
    /\ lastCall' = Call("_test_connection", TestReturn(answer), TestRequest(answer))
    /\ UNCHANGED << last_update_success, ws_client, port, password, delay, total_delay, state, ws,
                    orphans, last_message_time, now, reconnect_attempts,
                    shutdown, task, strays, exhausted, stop_pc, poll_pc, data,
                    latest >>
    /\ transitions' = SetState(state, state')

\* "if valid: return self.async_create_entry(...)", else the form again with
\* errors["base"] = "cannot_connect" if valid is None else "invalid_password"
StepResult(valid) ==
    IF valid = "True" THEN "create_entry"
    ELSE IF valid = "None" THEN "cannot_connect"
    ELSE "invalid_password"

\* async_step_user with the input of the user
async_step_user(answer) ==
    /\ Idle
    /\ ~ws_client
    /\ poll_pc = "idle"
    /\ lastCall' = Call("async_step_user", StepResult(TestReturn(answer)),
                        TestRequest(answer))
    /\ UNCHANGED << last_update_success, ws_client, port, password, delay,
                    total_delay, state, ws, orphans, last_message_time, now,
                    reconnect_attempts, shutdown, task, strays, exhausted,
                    stop_pc, poll_pc, data, latest >>
    /\ transitions' = SetState(state, state')

\* "ports_to_try = [9999, 18188, 8080, 80]"
ports_to_try == << 9999, 18188, 8080, 80 >>

\* what a probe meets: an answer, a refused connect, no answer within 3 s,
\* or an answer that is no JSON text
ProbeOutcomes == {"answer", "refused", "timeout", "garbage"}

\* a probe that takes every connection made for a printer
ProbeLenient(outcome) == outcome # "refused"

\* _test_creality_connection: True when receive_json returns; every
\* exception ends in "except Exception: return False" (the inner except
\* clause names aiohttp.WSMsgType, no exception class, so matching against it
\* raises TypeError, which the outer clause catches)
Probe(outcome) == outcome = "answer"

\* the loop of _detect_creality_port from the i-th port on, o giving what
\* each port's probe meets: the probes made and the port returned
RECURSIVE Detect(_, _)
Detect(o, i) ==
    IF i > Len(ports_to_try) THEN [probes |-> << >>, found |-> NoPort]
    ELSE LET p == ports_to_try[i]
         IN  IF Probe(o[p])
             THEN [probes |-> << << p, o[p] >> >>, found |-> p]
             ELSE [probes |-> << << p, o[p] >> >> \o Detect(o, i + 1).probes,
                   found |-> Detect(o, i + 1).found]

\* the method of the config flow and the function of the integration
DetectCopies == {"ConfigFlow._detect_creality_port", "_detect_creality_port"}

\* a port detection, from its first probe to its return
detect_creality_port(copy, o) ==
    /\ Idle
    /\ ~ws_client
    /\ poll_pc = "idle"
    /\ lastCall' = [Call(copy,
                         IF Detect(o, 1).found = NoPort THEN "None" ELSE "port",
                         NoWrite)
                    EXCEPT !.probes = Detect(o, 1).probes,
                           !.found = Detect(o, 1).found]
    /\ UNCHANGED << last_update_success, ws_client, port, password, delay,
                    total_delay, state, ws, orphans, last_message_time, now,
                    reconnect_attempts, shutdown, task, strays, exhausted,
                    stop_pc, poll_pc, data, latest >>
    /\ transitions' = SetState(state, state')

\* the state after construction, with any of the passwords
InitAnyPassword ==
    /\ port \in Ports
    /\ password \in TokenPasswords
    /\ ws_client = FALSE
    /\ state = DISCONNECTED
    /\ transitions = << >>
    /\ last_update_success = TRUE
    /\ ws = "none"
    /\ orphans = 0
    /\ last_message_time = 0
    /\ now = StartTime
    /\ reconnect_attempts = 0
    /\ delay = 0
    /\ total_delay = 0
    /\ shutdown = FALSE
    /\ task = "none"
    /\ strays = 0
    /\ exhausted = FALSE
    /\ stop_pc = "idle"
    /\ poll_pc = "idle"
    /\ data = NoneData
    /\ latest = EmptyMap
    /\ lastCall = NoCall

\* the steps that write a token: the test of the config flow, the poll, the
\* commands of the channel
NextToken ==
    \/ Return
    \/ \E answer \in TestAnswers : test_connection(answer)
    \/ RefreshBegin
    \/ \E msg \in Frames : PollAnswered(msg)
    \/ start
    \/ RunStart
    \/ ConnectOk
    \/ \E c \in Commands : send_command(c)

SpecToken == InitAnyPassword /\ [][NextToken]_vars

\* the steps of the config flow before an entry exists
NextFlow ==
    \/ Return
    \/ \E answer \in TestAnswers : async_step_user(answer)
    \/ \E copy \in DetectCopies, o \in [DetectionPorts -> ProbeOutcomes] :
          detect_creality_port(copy, o)

SpecFlow == InitAnyPassword /\ [][NextFlow]_vars

----------------------------------------------------------------------------
(* Properties.                                                             *)

SendOps == {"send_command", "send_json", "send_temp_command"}

SendCall ==
    \/ \E c \in Commands : send_command(c)
    \/ \E b \in Payloads : send_json(b)
    \/ \E z \in Zones, t \in Temps : send_temp_command(z, t)

\* C1: once a connection failure has found the attempt counter at the maximum
\* and set the state to Disconnected, the drive loop makes no further
\* connection attempt (it never enters Connecting) until start() is called
\* again.
C1_ExhaustionTerminal == exhausted => state # CONNECTING /\ task # "connect"

\* C2: when the socket of a Connected or Stale channel is closed (peer close,
\* error or close frame), the message loop ends and the drive loop takes the
\* error-handling path: with shutdown not requested it is left Reconnecting
\* in a backoff (attempts remain) or Disconnected (none remain).
C2_CloseEntersErrorPath ==
    [][(RecvClose /\ state \in {CONNECTED, STALE} /\ ~shutdown)
         => \/ state' = RECONNECTING /\ task' = "backoff"
            \/ state' = DISCONNECTED /\ reconnect_attempts >= max_reconnect_attempts]_vars

\* C3: after is_healthy() has moved the channel to Stale, a fresh inbound frame
\* on the same connection makes the next is_healthy() call return true.
C3_FreshFrameHealthy ==
    ( /\ lastCall.op = "is_healthy"
      /\ state = STALE
      /\ ws = "open"
      /\ task = "receive"
      /\ now - last_message_time <= stale_threshold )
    => lastCall.ret = "True"

\* C4: is_healthy() returns true iff the state is Connected and
\* now - last_message_time <= 90 s, false in every other state, and it moves
\* Connected to Stale exactly when called in state Connected with
\* now - last_message_time > 90 s (it changes the state in no other case).
C4_IsHealthy ==
    [][is_healthy =>
         /\ (lastCall'.ret = "True") <=>
                (state = CONNECTED /\ now - last_message_time <= 90)
         /\ lastCall'.ret \in {"True", "False"}
         /\ state' = IF state = CONNECTED /\ now - last_message_time > 90
                     THEN STALE ELSE state]_vars

\* C4 witness: a query has just turned a Connected channel Stale and returned
\* false.
C4_Witness ==
    /\ lastCall = Call("is_healthy", "False", NoWrite)
    /\ state = STALE
    /\ now - last_message_time > 90

\* C5: once a key is in the snapshot it is never removed, whatever frames,
\* polls, disconnects and reconnects happen: the key set only grows.
C5_KeysOnlyGrow == [][Keys(data) \subseteq Keys(data')]_vars

C7_SendRefused ==
    [][(SendCall /\ (~ws_client \/ state # CONNECTED))
         => /\ lastCall'.ret = "False"
            /\ lastCall'.wrote = NoWrite
            /\ UNCHANGED << last_update_success, ws_client, port, password, delay, total_delay, state, ws, orphans,
                            last_message_time, now, reconnect_attempts,
                            shutdown, task, strays, exhausted, stop_pc,
                            poll_pc, data, latest >>
            /\ transitions' = SetState(state, state')]_vars

\* C7 witness: a send was refused on a Stale channel whose socket is open.
C7_Witness ==
    /\ lastCall.op \in SendOps
    /\ lastCall.ret = "False"
    /\ ws_client
    /\ state = STALE
    /\ ws = "open"

\* C8: a fallback poll that obtains no usable status frame ends in
\* UpdateFailed; the update never returns an empty or missing value.
C8_PollFailureSurfaced ==
    lastCall.op = "refresh"
    => \/ lastCall.ret = "UpdateFailed"
       \/ lastCall.ret = "data" /\ Truthy(data)

\* C9: when stop() returns (and no start() has overtaken it) the drive-loop
\* task is finished, every socket the channel opened is closed and the state
\* is Disconnected.
C9_StopReleasesAll ==
    (lastCall.op = "stop" /\ shutdown)
    => /\ task \in {"none", "done"}
       /\ ws # "open"
       /\ orphans = 0
       /\ state = DISCONNECTED

\* C10: start() called while a drive loop is running has no effect, and at
\* most one drive-loop task of the channel is alive at any time.
C10_SingleDriveLoop ==
    /\ [](strays + (IF task \in {"none", "done"} THEN 0 ELSE 1) <= 1)
    /\ [][(start /\ task \notin {"none", "done"})
            => UNCHANGED << last_update_success, ws_client, port, password, delay, total_delay, state, ws, orphans,
                            last_message_time, now, reconnect_attempts,
                            shutdown, task, strays, exhausted, stop_pc,
                            poll_pc, data, latest >>]_vars

\* C10 witness: start() has just returned while the drive loop is in the
\* middle of its run.
C10_Witness ==
    /\ lastCall.op = "start"
    /\ task \in {"connect", "receive", "backoff"}
    /\ strays = 0

----------------------------------------------------------------------------
(* Backoff, exhaustion and connect                                         *)

\* C11: on the n-th consecutive failure (n = 1..10) the delay before jitter
\* is min(2^n, 60) seconds, that is 2, 4, 8, 16, 32, 60, 60, 60, 60, 60; it
\* never exceeds 60 s and does not decrease as the attempt count grows.
C11_BackoffDelays ==
    /\ task = "backoff" =>
          /\ reconnect_attempts \in 1..10
          /\ delay = << 2, 4, 8, 16, 32, 60, 60, 60, 60, 60 >>[reconnect_attempts]
          /\ delay <= 60
    /\ \A n \in 1..9 : Delay(n) <= Delay(n + 1)

\* the tenth consecutive failure sleeps with the capped delay
C11_Witness ==
    /\ task = "backoff"
    /\ state = RECONNECTING
    /\ reconnect_attempts = 10
    /\ delay = 60

\* C12: the total sleep of a backoff lies in [delay, 1.5 x delay], the jitter
\* added being between 10% and 50% of the capped delay; no sleep exceeds 90 s.
C12_JitterRange ==
    task = "backoff" =>
       /\ total_delay >= 1000 * delay
       /\ total_delay <= 1500 * delay
       /\ total_delay - 1000 * delay >= 100 * delay
       /\ total_delay - 1000 * delay <= 500 * delay
       /\ total_delay <= 90000

\* the longest sleep: the capped delay with the largest jitter
C12_Witness ==
    /\ task = "backoff"
    /\ delay = 60
    /\ total_delay = 90000

\* C13: in a session in which no connect has succeeded yet, the tenth
\* consecutive connect failure leaves the state DISCONNECTED with the drive
\* loop neither in a backoff sleep nor in another connect attempt.
C13_TenFailuresDisconnected ==
    [][(/\ ConnectFail
        /\ ~shutdown
        /\ last_message_time = 0
        /\ reconnect_attempts = max_reconnect_attempts - 1)
       => (state' = DISCONNECTED /\ task' \notin {"backoff", "connect"})]_vars

\* C14: once the attempts of the running drive loop are exhausted, every
\* is_healthy() call returns False until start() creates a new drive loop.
C14_ExhaustedStaysUnhealthy ==
    (exhausted /\ lastCall.op = "is_healthy") => lastCall.ret = "False"

\* C15: every step that takes the state from CONNECTING to CONNECTED sets
\* reconnect_attempts to 0 and last_message_time to the current time.
C15_ConnectResets ==
    [][(state = CONNECTING /\ state' = CONNECTED)
       => (reconnect_attempts' = 0 /\ last_message_time' = now')]_vars

\* a connect has succeeded after failed attempts and a passage of time
C15_Witness ==
    /\ state = CONNECTED
    /\ exhausted
    /\ reconnect_attempts = 0
    /\ last_message_time = now
    /\ now > StartTime

----------------------------------------------------------------------------
(* Frames, polls, inference, notification and shutdown                     *)

\* C16: a text frame json.loads rejects is dropped alone: the snapshot, the
\* connection state, the attempt counter, last_message_time and the socket
\* stay as they are, no listener is notified, and the loop stays at its
\* receive on the same connection.
C16_MalformedFrameSkipped ==
    [][(RecvInvalidJson /\ ~shutdown)
       => (/\ UNCHANGED << data, state, reconnect_attempts, last_message_time,
                           ws, orphans >>
           /\ lastCall' # Notified
           /\ task' = "receive")]_vars

\* the message loop reads on a connection that has delivered data
C16_Witness ==
    /\ Idle
    /\ Receiving
    /\ ~shutdown
    /\ state = CONNECTED
    /\ Truthy(data)
    /\ latest # EmptyMap

\* C17: when a fallback poll completes with the channel stale or
\* reconnecting, the channel having handled frames while the poll ran, the
\* snapshot holds every key it held before and every key of those frames,
\* each such key with the value of the frame unless the poll answer itself
\* carried the key.
C17_PollLosesNoData ==
    [][(/\ poll_pc = "polling"
        /\ poll_pc' = "idle"
        /\ state \in {STALE, RECONNECTING}
        /\ latest # EmptyMap)
       => (/\ Keys(data) \subseteq Keys(data')
           /\ \A k \in DOMAIN latest :
                 /\ k \in Keys(data')
                 /\ \/ data'.fields[k] = latest[k]
                    \/ \E msg \in Frames :
                          /\ PollAnswered(msg)
                          /\ k \in DOMAIN msg
                          /\ data'.fields[k] = msg[k])]_vars

NoModelField(f) == "model" \notin DOMAIN f /\ "printerModel" \notin DOMAIN f

\* C18: an update without 'model' and 'printerModel' gains detected_model
\* 'K1 Series (FDM)' on port 9999 and 'Halot Series (Resin)' on port 18188
\* and no detected_model on another port; an update carrying one of the two
\* gains no field of its own, and 'model' in the snapshot is always the value
\* a frame delivered.
C18_ModelInference ==
    /\ [](~data.none =>
            /\ "detected_model" \in Keys(data) =>
                  \/ port = 9999 /\ data.fields["detected_model"] = "K1 Series (FDM)"
                  \/ port = 18188 /\ data.fields["detected_model"] = "Halot Series (Resin)"
            /\ "model" \in Keys(data) => data.fields["model"] = FrameModel["model"]
            /\ "printerModel" \notin Keys(data))
    /\ [][\A f \in Frames \ {EmptyMap} :
            ((RecvText(f) /\ ~shutdown) \/ PollAnswered(f)) =>
               IF NoModelField(f)
               THEN /\ port \in {9999, 18188} => "detected_model" \in Keys(data')
                    /\ port \notin {9999, 18188} => "detected_model" \notin Keys(data')
               ELSE /\ Keys(data') \subseteq Keys(data) \cup DOMAIN f
                    /\ PollAnswered(f) => "detected_model" \notin Keys(data')]_vars

\* on port 18188 a frame without 'model' was merged, then one with 'model'
C18_Witness ==
    /\ port = 18188
    /\ ~data.none
    /\ "detected_model" \in Keys(data)
    /\ data.fields["detected_model"] = "Halot Series (Resin)"
    /\ "model" \in Keys(data)

\* C19: the listeners are notified once for each frame that changes the
\* snapshot, after the change (at once, or when the pending export returns),
\* and for no frame that is malformed or leaves the snapshot as it was.
C19_NotifiedIffUpdated ==
    [][/\ \A f \in Frames :
            (RecvText(f) /\ ~shutdown) =>
               IF data' # data
               THEN lastCall' = Notified \/ task' = "export"
               ELSE lastCall' # Notified /\ task' # "export"
       /\ (task = "export" /\ task' # "export") => lastCall' = Notified
       /\ RecvInvalidJson => lastCall' # Notified
       /\ (lastCall' = Notified /\ lastCall # Notified) =>
             (task = "export" \/ \E f \in Frames : RecvText(f))]_vars

----------------------------------------------------------------------------
(* Payloads, tokens, transitions, sockets, restart, requests and export    *)

\* C21: send_temp_command writes {"method": "set", "params":
\* {"nozzleTempControl": t}} for the zone 'nozzle' and {"method": "set",
\* "params": {"bedTempControl": {"num": 0, "val": t}}} for the zone 'bed',
\* each as one frame without a token; for any other zone it returns False and
\* writes nothing.
C21_TempPayloads ==
    [][\A z \in Zones, t \in Temps :
         send_temp_command(z, t) =>
            /\ lastCall'.ret = "True" => lastCall'.wrote # NoWrite
            /\ lastCall'.wrote # NoWrite =>
                  /\ lastCall'.tries = 1
                  /\ z = "nozzle" =>
                        lastCall'.wrote =
                           [kind |-> "json", method |-> "set",
                            body |-> "nozzleTempControl", num |-> -1,
                            val |-> t, token |-> << >>]
                  /\ z = "bed" =>
                        lastCall'.wrote =
                           [kind |-> "json", method |-> "set",
                            body |-> "bedTempControl", num |-> 0,
                            val |-> t, token |-> << >>]
            /\ z \notin {"nozzle", "bed"} =>
                  lastCall'.ret = "False" /\ lastCall'.wrote = NoWrite]_vars

\* the bed payload was written
C21_Witness ==
    /\ lastCall.op = "send_temp_command"
    /\ lastCall.ret = "True"
    /\ lastCall.wrote.body = "bedTempControl"
    /\ lastCall.wrote.num = 0

\* C22: the three copies of the token routine return the same token for every
\* password, None and the empty string give the token of the empty string
\* and no error, and every frame that carries a token carries the token of
\* the entry's password.
C22_TokenAgreement ==
    /\ \A pw \in TokenPasswords :
          /\ ClientTokens[pw] = FlowTokens[pw]
          /\ CoordinatorTokens[pw] = FlowTokens[pw]
          /\ FlowTokens[pw] # TokenError
    /\ FlowTokens[NonePassword] = FlowTokens[Str(<< >>)]
    /\ lastCall.wrote.kind = "cmd" =>
          /\ lastCall.wrote.token = FlowTokens[password]
          /\ Len(lastCall.wrote.token) >= 12

\* the client has written a command for an entry without password
C22_Witness ==
    /\ password = NonePassword
    /\ lastCall.op = "send_command"
    /\ lastCall.ret = "True"
    /\ lastCall.wrote.token = FlowTokens[Str(<< >>)]

\* C28: a send_command or send_json whose write raises returns False after
\* one write attempt and changes nothing of the channel or the snapshot.
C28_WriteFailure ==
    [][(/\ \/ \E c \in Commands : send_command(c)
           \/ \E b \in Payloads : send_json(b)
        /\ lastCall'.wrote # NoWrite
        /\ lastCall'.ret = "False")
       => (/\ lastCall'.tries = 1
           /\ UNCHANGED << state, ws, orphans, reconnect_attempts,
                           last_message_time, task, shutdown, data >>)]_vars

\* a write has failed on a connected channel
C28_Witness ==
    /\ lastCall.op \in {"send_command", "send_json"}
    /\ lastCall.ret = "False"
    /\ lastCall.wrote # NoWrite
    /\ state = CONNECTED
    /\ ws = "open"

\* C29: _async_update_data starts a fallback poll only when there is no
\* channel, when is_healthy() is false or when the snapshot is empty; with a
\* healthy channel and a non-empty snapshot it opens no connection and returns
\* the snapshot as it is.
C29_FallbackOnlyWhenNeeded ==
    [][RefreshBegin =>
         IF /\ ws_client
            /\ state = CONNECTED
            /\ now - last_message_time <= stale_threshold
            /\ ~data.none
            /\ data.fields # EmptyMap
         THEN /\ poll_pc' = "idle"
              /\ lastCall'.op = "refresh"
              /\ lastCall'.ret = "data"
              /\ lastCall'.wrote = NoWrite
              /\ data' = data
         ELSE poll_pc' = "polling"]_vars

\* an update has returned the snapshot of a healthy channel without a poll
C29_Witness ==
    /\ lastCall.op = "refresh"
    /\ lastCall.wrote = NoWrite
    /\ poll_pc = "idle"
    /\ state = CONNECTED
    /\ Truthy(data)

\* C24: the channel owns at most one open socket: whenever _connect opens a
\* socket, the socket self.ws referenced before and every socket opened
\* earlier are closed.
C24_OneOpenSocket ==
    [][ConnectOk => (ws # "open" /\ orphans = 0)]_vars

\* the changes of state the connection may make
AllowedTransitions ==
    { << DISCONNECTED, CONNECTING >>, << CONNECTING, CONNECTED >>,
      << CONNECTING, DISCONNECTED >>, << CONNECTED, STALE >>,
      << CONNECTED, DISCONNECTED >>, << STALE, DISCONNECTED >>,
      << DISCONNECTED, RECONNECTING >>, << RECONNECTING, CONNECTING >>,
      << RECONNECTING, DISCONNECTED >> }

\* C23: every change of the connection state is Disconnected->Connecting,
\* Connecting->Connected, Connecting->Disconnected, Connected->Stale,
\* Connected->Disconnected, Stale->Disconnected, Disconnected->Reconnecting,
\* Reconnecting->Connecting or Reconnecting->Disconnected.
C23_AllowedTransitions ==
    \A i \in 1..Len(transitions) : transitions[i] \in AllowedTransitions

\* C25: while the shutdown stop() requested stands, the drive loop starts no
\* connection attempt and the state never becomes Connecting or
\* Reconnecting; a backoff sleep in progress ends by the cancellation of
\* stop() and by nothing else.
C25_ShutdownStopsLoop ==
    [][(shutdown /\ shutdown') =>
          /\ task' = "connect" => task = "connect"
          /\ \A i \in 1..Len(transitions') :
                 transitions'[i][2] \notin {CONNECTING, RECONNECTING}
          /\ state' \in {CONNECTING, RECONNECTING} => state' = state
          /\ (task = "backoff" /\ task' # "backoff") =>
                 /\ stop_pc = "await"
                 /\ stop_pc' # "await"
                 /\ task' = "done"
                 /\ total_delay' = 0]_vars

\* stop() has ended a drive loop that was in its backoff sleep
C25_Witness ==
    /\ shutdown
    /\ task = "done"
    /\ lastCall.op = "stop"
    /\ transitions = << << RECONNECTING, DISCONNECTED >> >>

\* C26: a start() that creates the drive loop after the attempts were
\* exhausted and stop() has run leaves the attempt counter at 0, so that the
\* restarted loop has its ten retries.
C26_RestartResetsCounter ==
    [][(exhausted /\ shutdown /\ task = "done" /\ task' = "top")
          => reconnect_attempts' = 0]_vars

\* C27: every step of the drive loop that enters the message loop writes the
\* GET_PRINT_STATUS request with the token, once, before the loop receives
\* a frame.
C27_StatusRequestOnce ==
    [][((RunStart \/ ConnectOk \/ BackoffDone \/ RecvClose \/ RecvTimeout
           \/ RecvEnd) /\ task' = "receive")
          => /\ lastCall'.op = "_message_loop"
             /\ lastCall'.tries = 1
             /\ lastCall'.wrote.kind = "cmd"
             /\ lastCall'.wrote.body = "GET_PRINT_STATUS"
             /\ lastCall'.wrote.token = ClientTokens[password]]_vars

\* C30: once the export hook has run on the frame that seeded the snapshot,
\* no later frame of the session starts it again, whatever polls and
\* reconnects happen in between.
C30_ExportOnce ==
    [][task' = "export" => task = "export"]_vars

----------------------------------------------------------------------------
(* Health queries, the attempt counter and the transition log              *)

\* C31: the state becomes Stale only inside a health query (is_healthy, also
\* as called by _async_update_data) on a Connected channel whose last frame
\* is older than the threshold, which records the one change Connected ->
\* Stale; a query on a channel that is already Stale records nothing.
C31_OneStaleTransition ==
    [][/\ (state' = STALE /\ state # STALE) =>
             /\ is_healthy \/ RefreshBegin
             /\ state = CONNECTED
             /\ now - last_message_time > stale_threshold
             /\ transitions' = << << CONNECTED, STALE >> >>
       /\ \A i \in 1..Len(transitions') :
             transitions'[i][2] = STALE => state # STALE /\ Len(transitions') = 1
       /\ ((is_healthy \/ RefreshBegin) /\ state = STALE) =>
             state' = STALE /\ transitions' = << >>]_vars

\* a second query on the stale channel has answered False and recorded
\* nothing
C31_Witness ==
    /\ lastCall.op = "is_healthy"
    /\ lastCall.ret = "False"
    /\ state = STALE
    /\ now - last_message_time > stale_threshold
    /\ transitions = << >>

\* C33: the attempt counter stays within 0..max_reconnect_attempts; it grows
\* by 1 with every backoff sleep that starts, a successful connect sets it to
\* 0, and no other step (the exhaustion branch, stop(), a health query)
\* changes it.
C33_CounterBounds ==
    [][/\ reconnect_attempts \in 0..10
       /\ reconnect_attempts' \in 0..10
       /\ (task' = "backoff" /\ task # "backoff") =>
             reconnect_attempts' = reconnect_attempts + 1
       /\ reconnect_attempts' # reconnect_attempts =>
             \/ task' = "backoff" /\ task # "backoff"
             \/ ConnectOk /\ reconnect_attempts' = 0
       /\ (\/ (ConnectFail \/ RecvRaise) /\ reconnect_attempts >= 10
           \/ StopBegin \/ TaskCancelled \/ StopReturn \/ is_healthy)
             => reconnect_attempts' = reconnect_attempts]_vars

\* the exhaustion branch was taken with the counter at its maximum
C33_Witness ==
    /\ exhausted
    /\ reconnect_attempts = max_reconnect_attempts
    /\ task = "connect"

\* C36: is_healthy changes nothing but the connection state, and that only
\* from Connected to Stale when the last frame is older than the threshold.
C36_HealthQueryEffects ==
    [][is_healthy =>
          /\ UNCHANGED << ws, orphans, reconnect_attempts, last_message_time,
                          shutdown, data, task, delay, total_delay, now >>
          /\ state' # state => state = CONNECTED /\ state' = STALE
          /\ (state # CONNECTED \/ now - last_message_time <= stale_threshold)
                => state' = state]_vars

\* a query on a stale channel that has a fresh frame left it Stale
C36_Witness ==
    /\ lastCall.op = "is_healthy"
    /\ state = STALE
    /\ now - last_message_time <= stale_threshold
    /\ transitions = << >>

\* C39: the transition log never holds an entry whose old and new state are
\* equal: _set_state with the current state records nothing.
C39_NoSelfTransition ==
    \A i \in 1..Len(transitions) : transitions[i][1] # transitions[i][2]

\* the exhaustion branch has called _set_state(DISCONNECTED) on a channel
\* already Disconnected by _disconnect
C39_Witness ==
    /\ exhausted
    /\ transitions = << << CONNECTING, DISCONNECTED >>,
                        << DISCONNECTED, CONNECTING >> >>

\* C34: an entity whose coordinator has a channel reports available exactly
\* when the channel is Connected, its last frame is at most 90 s old and the
\* last update succeeded; a fallback poll that succeeds while the channel is
\* not healthy leaves the entity unavailable.
C34_AvailableOnlyHealthy ==
    (lastCall.op \in Entities /\ ws_client) =>
        (lastCall.ret = "True" <=>
            /\ state = CONNECTED
            /\ now - last_message_time <= stale_threshold
            /\ last_update_success)

\* an entity is unavailable although the last update, a poll, has succeeded
C34_Witness ==
    /\ lastCall.op = "sensor.available"
    /\ lastCall.ret = "False"
    /\ ws_client
    /\ last_update_success
    /\ Truthy(data)
    /\ state # CONNECTED

\* C35: a frame that decodes to the empty object stamps last_message_time
\* and does nothing else: the snapshot, last_update_success and the message
\* loop are as before and no listener is notified.
C35_EmptyFrame ==
    [][(RecvText(EmptyMap) /\ ~shutdown) =>
          /\ last_message_time' = now
          /\ data' = data
          /\ last_update_success' = last_update_success
          /\ lastCall' = NoCall
          /\ task' = "receive"
          /\ state' = state]_vars

\* the message loop has stamped a frame on a stale channel after a failed
\* update, and the flag is still false
C35_Witness ==
    /\ Idle
    /\ task = "receive"
    /\ state = STALE
    /\ last_message_time = now
    /\ ~last_update_success
    /\ data = NoneData

----------------------------------------------------------------------------
(* The config flow                                                         *)

C38_UserStep ==
    [][\A answer \in TestAnswers :
          async_step_user(answer) =>
             lastCall'.ret = (IF answer = "valid" THEN "create_entry"
                              ELSE IF answer = "token_error" THEN "invalid_password"
                              ELSE "cannot_connect")]_vars

\* the drive loop runs and the channel is not Connected on an open socket
Lost ==
    /\ task \notin {"none", "top", "done"}
    /\ ~shutdown
    /\ ~exhausted
    /\ ~(state = CONNECTED /\ ws = "open")

\* C32: with a device that stays reachable and no shutdown, a channel that
\* has lost its connection before exhaustion is eventually Connected again
\* on an open socket.
C32_EventuallyReconnected ==
    Lost ~> (state = CONNECTED /\ ws = "open")

====
